---- MODULE Spec2Model ----
(***************************************************************************)
(* AtomMan panel daemon (src/screen.py): the poll/reply protocol engine    *)
(* (unlock handshake with retries, steady-state tile rotation), the frame  *)
(* codec and the fan-speed resolver.                                       *)
(*                                                                         *)
(* Time is counted in ticks of one second.  The serial port is opened with *)
(* timeout=1.0, so a read that finds no byte costs exactly one tick; every *)
(* other step of the loops (a read that finds its bytes, payload           *)
(* generation, the 6 ms post-write sleep, the 0.35 s control-line pulse)   *)
(* takes less than a tick and is modelled as taking none.                  *)
(*                                                                         *)
(* Python's None is the empty sequence and a value v is <<v>>.             *)
(* The transport is assumed healthy (a failed write or open ends the       *)
(* process) and the per-tile sensor reads are the external collaborators   *)
(* of the protocol engine: a payload generator returns its text.           *)
(***************************************************************************)
EXTENDS Integers, Sequences, FiniteSets, TLC

VARIABLES
    pc,            \* where main() is: "for", "unlock", "ret", "steady"
    attempts,      \* args.attempts
    attempt_idx,   \* i of main's for loop = attempt_idx of unlock_attempt
    activated,     \* unlock_attempt's activated / main's activated
    start,         \* unlock_attempt: start
    now,           \* time.time(), in ticks
    idx,           \* unlock_attempt: idx
    boot_replies,  \* unlock_attempt: boot_replies
    enq_times,     \* unlock_attempt: enq_times
    sidx,          \* main: idx of the steady-state loop
    rx,            \* bytes waiting in the serial input buffer
    out,           \* last frame written to the transport (<<>>: none yet)
    nWritten,      \* ser.write calls of the running loop (attempt or steady state)
    pulses,        \* number of DTR pulses issued so far
    dtr,           \* level of the DTR line
    \* history variables (observers, read by no action guard)
    nPolls,        \* valid polls read_enq has returned to the running loop
    enq,           \* sequence byte of the last valid poll (<<>>: none yet)
    hist,          \* arrival times of all valid polls of the current attempt
    bootSeen,      \* polls of the current attempt whose byte is '0'..'9' or '<'
    failed,        \* unlock attempts that returned False
    sReplies,      \* replies written by the steady-state loop
    \* one call of a pure function
    fcall,         \* the call: [fn |-> name, ...arguments]
    fres,          \* its result
    fdone,         \* whether it has returned
    \* the network meter and what it reads
    nm,            \* _nm: the NetMeter
    net,           \* default routes, /sys/class/net, state of each interface
    netdev,        \* /proc/net/dev: per interface <<>> or <<rx bytes, tx bytes>>
    clk,           \* time.time() of the meter's samples, in ms
    rates,         \* (history) the last rates_ks() call and what it returned
    ncalls,        \* (history) number of rates_ks() calls
    \* the vendor-label cache
    cache,         \* _cache: per key the value v and the time t it was stored
    wall,          \* time.time(), in seconds
    lab,           \* (history) the last ram_label() / disk_label() call
    yielded,       \* (history) per key, how its last call got its value
    served         \* (history) how the last received poll was served

pvars == <<pc, attempts, attempt_idx, activated, start, now, idx, boot_replies,
           enq_times, sidx, rx, out, nWritten, pulses, dtr>>
hvars == <<nPolls, enq, hist, bootSeen, failed, sReplies>>
fvars == <<fcall, fres, fdone>>
nvars == <<nm, net, netdev, clk, rates, ncalls>>
cvars == <<cache, wall, lab, yielded>>
svars == <<nvars, cvars, served>>
vars == <<pvars, hvars, fvars, svars>>

(***************************************************************************)
(* Bounds of the model                                                     *)
(***************************************************************************)
MaxAttempts == 2        \* args.attempts ranges over 0..MaxAttempts
MaxUnlockPolls == 5     \* valid polls answered in one unlock attempt
MaxSteadyPolls == 9     \* valid polls answered in steady state
MaxRatesCalls == 2      \* rates_ks() calls of one run of the meter
MaxNetClk == 1          \* ms that pass during one run of the meter
MaxTxt == 3             \* characters of a payload text given to build_reply

(***************************************************************************)
(* Program constants                                                       *)
(***************************************************************************)
TRAILER == <<204, 51, 195, 60>>
UNLOCK_WINDOW == 5
ENQ_WINDOW == 2
READ_TIMEOUT == 1
IDX_WRAP == 1000000
CPU == 83
GPU == 54
MEM == 73
DSK == 79
DAT == 107
NET == 39
VOL == 16
BAT == 26
UNLOCK_ROT == <<CPU, GPU, MEM>>
FULL_ROT == <<CPU, GPU, MEM, DSK, DAT, NET, VOL, BAT>>

Max(a, b) == IF a >= b THEN a ELSE b

(***************************************************************************)
(* Frame codec                                                             *)
(***************************************************************************)
\* read_enq(ser) on the bytes s waiting in the input buffer.  ret is the
\* value returned (the sequence byte, or None), rest is what the call leaves
\* in the buffer, timeout whether one of its reads found fewer bytes than it
\* asked for and so ran into the one-second serial timeout.

\* (mutant) the last trailer byte is not compared
read_enq_short_trailer(s) ==
    IF Len(s) < 1 THEN [ret |-> <<>>, rest |-> <<>>, timeout |-> TRUE]
    ELSE IF s[1] # 170 THEN [ret |-> <<>>, rest |-> SubSeq(s, 2, Len(s)), timeout |-> FALSE]
    ELSE IF Len(s) < 2 THEN [ret |-> <<>>, rest |-> <<>>, timeout |-> TRUE]
    ELSE IF s[2] # 5 THEN [ret |-> <<>>, rest |-> SubSeq(s, 3, Len(s)), timeout |-> FALSE]
    ELSE IF Len(s) < 3 THEN [ret |-> <<>>, rest |-> <<>>, timeout |-> TRUE]
    ELSE IF Len(s) < 7 THEN [ret |-> <<>>, rest |-> <<>>, timeout |-> TRUE]
    ELSE IF SubSeq(s, 4, 6) # SubSeq(TRAILER, 1, 3)
      THEN [ret |-> <<>>, rest |-> SubSeq(s, 8, Len(s)), timeout |-> FALSE]
    ELSE [ret |-> <<s[3]>>, rest |-> SubSeq(s, 8, Len(s)), timeout |-> FALSE]

\* (mutant) the seven bytes are read at once and then compared
read_enq_whole_frame(s) ==
    IF Len(s) < 7 THEN [ret |-> <<>>, rest |-> <<>>, timeout |-> TRUE]
    ELSE IF s[1] # 170 \/ s[2] # 5 \/ SubSeq(s, 4, 7) # TRAILER
      THEN [ret |-> <<>>, rest |-> SubSeq(s, 8, Len(s)), timeout |-> FALSE]
    ELSE [ret |-> <<s[3]>>, rest |-> SubSeq(s, 8, Len(s)), timeout |-> FALSE]

read_enq(s) ==
    \* if ser.read(1)!=b"\xAA": return None    (b"" after the timeout)
    IF Len(s) < 1 THEN [ret |-> <<>>, rest |-> <<>>, timeout |-> TRUE]
    ELSE IF s[1] # 170 THEN [ret |-> <<>>, rest |-> SubSeq(s, 2, Len(s)), timeout |-> FALSE]
    \* if ser.read(1)!=b"\x05": return None
    ELSE IF Len(s) < 2 THEN [ret |-> <<>>, rest |-> <<>>, timeout |-> TRUE]
    ELSE IF s[2] # 5 THEN [ret |-> <<>>, rest |-> SubSeq(s, 3, Len(s)), timeout |-> FALSE]
    \* b3=ser.read(1); if not b3: return None
    ELSE IF Len(s) < 3 THEN [ret |-> <<>>, rest |-> <<>>, timeout |-> TRUE]
    \* if ser.read(4)!=TRAILER: return None    (fewer than 4 bytes after the timeout)
    ELSE IF Len(s) < 7 THEN [ret |-> <<>>, rest |-> <<>>, timeout |-> TRUE]
    ELSE IF SubSeq(s, 4, 7) # TRAILER
      THEN [ret |-> <<>>, rest |-> SubSeq(s, 8, Len(s)), timeout |-> FALSE]
    \* return b3[0]
    ELSE [ret |-> <<s[3]>>, rest |-> SubSeq(s, 8, Len(s)), timeout |-> FALSE]

\* (mutant) errors="replace": a character that cannot be encoded becomes '?'
latin1_replace(txt) == [i \in 1..Len(txt) |-> IF txt[i] <= 255 THEN txt[i] ELSE 63]

\* txt.encode("latin-1", "ignore"): code points above 255 are dropped.
latin1_ignore(txt) ==
    LET Encodable(c) == c <= 255 IN SelectSeq(txt, Encodable)

build_reply(id_byte, seq_ascii, txt) ==
    <<170, id_byte, 0, seq_ascii>> \o latin1_ignore(txt) \o TRAILER

seq_for(tile_id) ==
    CASE tile_id = CPU -> 50
      [] tile_id = GPU -> 51
      [] tile_id = MEM -> 52
      [] tile_id = DSK -> 53
      [] tile_id = DAT -> 54
      [] tile_id = NET -> 55
      [] tile_id = VOL -> 57
      [] tile_id = BAT -> 50
      [] OTHER -> 50

is_ascii_seq(b) == (48 <= b /\ b <= 57) \/ (b = 60)

(***************************************************************************)
(* Tile payloads.  The text of a payload depends on sensor values the      *)
(* protocol never inspects; the generator of a tile is represented by the  *)
(* opening brace, the first letter of the tile's template and the closing  *)
(* brace ("{CPU:..}" -> "{C}", "{SPEED:..}" -> "{S}", ...).                *)
(***************************************************************************)
maker(tile) ==
    CASE tile = CPU -> <<123, 67, 125>>
      [] tile = GPU -> <<123, 71, 125>>
      [] tile = MEM -> <<123, 77, 125>>
      [] tile = DSK -> <<123, 68, 125>>
      [] tile = DAT -> <<123, 68, 125>>
      [] tile = NET -> <<123, 83, 125>>
      [] tile = VOL -> <<123, 86, 125>>
      [] tile = BAT -> <<123, 66, 125>>

(***************************************************************************)
(* The panel: what arrives on the serial line during one read_enq call.    *)
(***************************************************************************)
Poll(seq) == <<170, 5, seq>> \o TRAILER
\* sequence bytes of the panel's polls: ':' (not boot-style) and '<'; the
\* polls behind noise carry the digit '1'
SeqBytes == {58, 60}
BadTrailerFrame == <<170, 5, 57, 204, 51, 195, 61>>
TruncatedFrame == <<170, 5>>
NoisyPoll == <<0>> \o Poll(49)
\* a stray AA right before two polls: read_enq takes the first poll's AA for
\* the 05 it expects, and the rest of that poll is then read as noise
StrayThenPolls == <<170>> \o Poll(49) \o Poll(49)
\* The panel paces the exchange: it sends while the input buffer is empty.
\* <<>> is silence for the whole serial timeout.  more: whether the bound on
\* the polls of the running loop lets the panel send another poll.
Arrivals(buf, more) ==
    IF buf # <<>> THEN {<<>>}
    ELSE {BadTrailerFrame, TruncatedFrame, <<>>}
            \cup (IF more THEN {Poll(s) : s \in SeqBytes} \cup {NoisyPoll, StrayThenPolls}
                  ELSE {})

(***************************************************************************)
(* unlock_attempt                                                          *)
(***************************************************************************)
\* (mutant) arrivals are never dropped from the list
recent_unfiltered(ts, t) == ts

\* enq_times=[t for t in enq_times if time.time()-t <= 2.0]
recent(ts, t) ==
    LET Keep(x) == t - x <= ENQ_WINDOW IN SelectSeq(ts, Keep)

activation(boot, n_enq) == (boot >= 3) /\ (n_enq >= 5)

unlock_tile(i) == UNLOCK_ROT[(i % Len(UNLOCK_ROT)) + 1]

\* (mutant) the tile's fixed code instead of the echo
unlock_seq_fixed(tile, seq) == seq_for(tile)

\* frm = build_reply(tile, seq, payload): the poll's byte is echoed
unlock_seq(tile, seq) == seq

\* while time.time()-start < unlock_window
in_window == now - start < UNLOCK_WINDOW

\* One iteration of the while loop in which read_enq returns a sequence byte.
UnlockReply ==
    /\ pc = "unlock"
    /\ in_window
    /\ \E chunk \in Arrivals(rx, idx < MaxUnlockPolls) :
         LET r == read_enq(rx \o chunk)
             seq == r.ret[1]
             t == now + (IF r.timeout THEN READ_TIMEOUT ELSE 0)
             times == recent(Append(enq_times, t), t)
             tile == unlock_tile(idx)
             boot == boot_replies + (IF is_ascii_seq(seq) THEN 1 ELSE 0)
         IN  /\ r.ret # <<>>
             /\ rx' = r.rest
             /\ now' = t
             /\ enq_times' = times
             /\ out' = build_reply(tile, unlock_seq(tile, seq), maker(tile))
             /\ nWritten' = nWritten + 1
             /\ idx' = idx + 1
             /\ boot_replies' = boot
             /\ IF activation(boot, Len(times))
                  THEN activated' = TRUE /\ pc' = "ret"
                  ELSE UNCHANGED <<activated, pc>>
             /\ nPolls' = nPolls + 1
             /\ enq' = <<seq>>
             /\ hist' = Append(hist, t)
             /\ bootSeen' = bootSeen + (IF seq \in (48..57) \cup {60} THEN 1 ELSE 0)
    /\ UNCHANGED <<attempts, attempt_idx, start, sidx, pulses, dtr, failed, sReplies>>
    /\ UNCHANGED <<fvars, svars>>

\* (mutant) a frame is written although read_enq returned None
UnlockDiscard_writes ==
    /\ pc = "unlock"
    /\ in_window
    /\ \E chunk \in Arrivals(rx, idx < MaxUnlockPolls) :
         LET r == read_enq(rx \o chunk)
         IN  /\ r.ret = <<>>
             /\ rx' = r.rest
             /\ now' = now + (IF r.timeout THEN READ_TIMEOUT ELSE 0)
             /\ out' = build_reply(unlock_tile(idx), 48, maker(unlock_tile(idx)))
             /\ nWritten' = nWritten + 1
    /\ UNCHANGED <<pc, attempts, attempt_idx, activated, start, idx, boot_replies,
                   enq_times, sidx, pulses, dtr>>
    /\ UNCHANGED <<nPolls, enq, hist, bootSeen, failed, sReplies>>
    /\ UNCHANGED <<fvars, svars>>

\* One iteration in which read_enq returns None: continue.
UnlockDiscard ==
    /\ pc = "unlock"
    /\ in_window
    /\ \E chunk \in Arrivals(rx, idx < MaxUnlockPolls) :
         LET r == read_enq(rx \o chunk)
         IN  /\ r.ret = <<>>
             /\ rx' = r.rest
             /\ now' = now + (IF r.timeout THEN READ_TIMEOUT ELSE 0)
    /\ UNCHANGED <<pc, attempts, attempt_idx, activated, start, idx, boot_replies,
                   enq_times, sidx, out, nWritten, pulses, dtr>>
    /\ UNCHANGED <<nPolls, enq, hist, bootSeen, failed, sReplies>>
    /\ UNCHANGED <<fvars, svars>>

\* The window has elapsed: the loop ends and unlock_attempt returns False.
UnlockTimeout ==
    /\ pc = "unlock"
    /\ ~in_window
    /\ pc' = "ret"
    /\ failed' = failed + 1
    /\ UNCHANGED <<attempts, attempt_idx, activated, start, now, idx, boot_replies,
                   enq_times, sidx, rx, out, nWritten, pulses, dtr>>
    /\ UNCHANGED <<nPolls, enq, hist, bootSeen, sReplies>>
    /\ UNCHANGED <<fvars, svars>>

(***************************************************************************)
(* main: the activation attempts                                           *)
(***************************************************************************)
\* for i in range(1, args.attempts+1): activated = unlock_attempt(ser, i, ...)
\* (mutant) the counters are kept from one attempt to the next
StartAttempt_keeps ==
    /\ pc = "for"
    /\ attempt_idx < attempts
    /\ attempt_idx' = attempt_idx + 1
    /\ pc' = "unlock"
    /\ start' = now
    /\ activated' = FALSE
    /\ hist' = <<>>
    /\ bootSeen' = 0
    /\ UNCHANGED <<attempts, now, idx, boot_replies, enq_times, sidx, rx, out,
                   nWritten, pulses, dtr>>
    /\ UNCHANGED <<nPolls, enq, failed, sReplies>>
    /\ UNCHANGED <<fvars, svars>>

StartAttempt ==
    /\ pc = "for"
    /\ attempt_idx < attempts
    /\ attempt_idx' = attempt_idx + 1
    /\ pc' = "unlock"
    /\ start' = now
    /\ idx' = 0
    /\ boot_replies' = 0
    /\ enq_times' = <<>>
    /\ activated' = FALSE
    /\ hist' = <<>>
    /\ bootSeen' = 0
    /\ UNCHANGED <<attempts, now, sidx, rx, out, nWritten, pulses, dtr>>
    /\ UNCHANGED <<nPolls, enq, failed, sReplies>>
    /\ UNCHANGED <<fvars, svars>>

\* (mutant) a handshake that failed ends the process
AttemptsExhausted_fatal ==
    /\ pc = "for"
    /\ ~(attempt_idx < attempts)
    /\ pc' = (IF activated THEN "steady" ELSE "exit")
    /\ sidx' = 0
    /\ UNCHANGED <<attempts, attempt_idx, activated, start, now, idx, boot_replies,
                   enq_times, rx, out, nWritten, pulses, dtr>>
    /\ UNCHANGED hvars
    /\ UNCHANGED <<fvars, svars>>

\* The for loop is exhausted: on to the steady state with idx=0.
AttemptsExhausted ==
    /\ pc = "for"
    /\ ~(attempt_idx < attempts)
    /\ pc' = "steady"
    /\ sidx' = 0
    /\ UNCHANGED <<attempts, attempt_idx, activated, start, now, idx, boot_replies,
                   enq_times, rx, out, nWritten, pulses, dtr>>
    /\ UNCHANGED hvars
    /\ UNCHANGED <<fvars, svars>>

\* unlock_attempt has returned: break when activated, else pulse DTR and loop.
\* The locals of unlock_attempt are gone; where another attempt follows, its
\* counters are left as they were, for that attempt to set its own anew.
AfterAttempt ==
    /\ pc = "ret"
    /\ IF activated
         THEN /\ pc' = "steady"
              /\ sidx' = 0
              /\ UNCHANGED <<pulses, dtr>>
         ELSE \* ser.setDTR(False); time.sleep(0.05); ser.setDTR(True); time.sleep(0.3)
              /\ pulses' = pulses + 1
              /\ dtr' = TRUE
              /\ pc' = "for"
              /\ UNCHANGED sidx
    /\ start' = 0
    /\ IF ~activated /\ attempt_idx < attempts
         THEN UNCHANGED <<idx, boot_replies, enq_times>>
         ELSE idx' = 0 /\ boot_replies' = 0 /\ enq_times' = <<>>
    /\ hist' = <<>>
    /\ bootSeen' = 0
    /\ nWritten' = 0
    /\ nPolls' = 0
    /\ UNCHANGED <<attempts, attempt_idx, activated, now, rx, out>>
    /\ UNCHANGED <<enq, failed, sReplies>>
    /\ UNCHANGED <<fvars, svars>>

(***************************************************************************)
(* main: the steady-state loop                                             *)
(***************************************************************************)
full_tile(i) == FULL_ROT[(i % Len(FULL_ROT)) + 1]

\* (mutant) the poll's byte is echoed as during unlock
steady_seq_echo(tile, enq3) == enq3

\* seq = seq_for(tile): the poll's own byte enq3 is not used
steady_seq(tile, enq3) == seq_for(tile)

\* (mutant) the index advances by two
next_idx_skip(i) == (i + 2) % IDX_WRAP

\* idx = (idx + 1) % 1_000_000
\* (mutant) the index wraps one step early
next_idx_early(i) == (i + 1) % (IDX_WRAP - 1)

next_idx(i) == (i + 1) % IDX_WRAP

\* One iteration of while True in which read_enq returns a sequence byte.
\* The loop does not read the clock (the dashboard aside).
SteadyReply ==
    /\ pc = "steady"
    /\ \E chunk \in Arrivals(rx, sReplies < MaxSteadyPolls) :
         LET r == read_enq(rx \o chunk)
             enq3 == r.ret[1]
             tile == full_tile(sidx)
         IN  /\ r.ret # <<>>
             /\ rx' = r.rest
             /\ out' = build_reply(tile, steady_seq(tile, enq3), maker(tile))
             /\ nWritten' = nWritten + 1
             /\ sidx' = next_idx(sidx)
             /\ nPolls' = nPolls + 1
             /\ enq' = <<enq3>>
             /\ sReplies' = sReplies + 1
    /\ UNCHANGED <<pc, attempts, attempt_idx, activated, start, now, idx, boot_replies,
                   enq_times, pulses, dtr>>
    /\ UNCHANGED <<hist, bootSeen, failed>>
    /\ UNCHANGED <<fvars, svars>>

\* (mutant) the rotation advances although read_enq returned None
SteadyDiscard_advances ==
    /\ pc = "steady"
    /\ \E chunk \in Arrivals(rx, sReplies < MaxSteadyPolls) :
         LET r == read_enq(rx \o chunk)
         IN  /\ r.ret = <<>>
             /\ rx' = r.rest
             /\ sidx' = IF r.timeout THEN sidx ELSE next_idx(sidx)
    /\ UNCHANGED <<pc, attempts, attempt_idx, activated, start, now, idx, boot_replies,
                   enq_times, out, nWritten, pulses, dtr>>
    /\ UNCHANGED <<nPolls, enq, hist, bootSeen, failed, sReplies>>
    /\ UNCHANGED <<fvars, svars>>

\* One iteration in which read_enq returns None: continue.
SteadyDiscard ==
    /\ pc = "steady"
    /\ \E chunk \in Arrivals(rx, sReplies < MaxSteadyPolls) :
         LET r == read_enq(rx \o chunk)
         IN  /\ r.ret = <<>>
             /\ rx' = r.rest
    /\ UNCHANGED <<pc, attempts, attempt_idx, activated, start, now, idx, boot_replies,
                   enq_times, sidx, out, nWritten, pulses, dtr>>
    /\ UNCHANGED <<nPolls, enq, hist, bootSeen, failed, sReplies>>
    /\ UNCHANGED <<fvars, svars>>

(***************************************************************************)
(* Fan-speed resolver.  The environment of a call is explicit: hwmon is    *)
(* the content of the fan*_input files in glob order (<<>>: the file       *)
(* cannot be read as an integer), nvidia is what nvidia-smi printed.       *)
(***************************************************************************)
RECURSIVE hwmon_scan(_, _)
\* the two nested for loops, best being carried along
hwmon_scan(files, best) ==
    IF files = <<>> THEN best
    ELSE LET f == Head(files)
             b == IF f # <<>> /\ f[1] > 0
                    THEN (IF best = <<>> THEN f ELSE <<Max(best[1], f[1])>>)
                    ELSE best
         IN  hwmon_scan(Tail(files), b)

_fan_rpm_from_hwmon(files) == hwmon_scan(files, <<>>)

\* Python's round(): to the nearest integer, ties to the even one (n >= 0, d > 0)
round_half_even(n, d) ==
    LET q == n \div d
        r == n % d
    IN  IF 2 * r < d THEN q
        ELSE IF 2 * r > d THEN q + 1
        ELSE IF q % 2 = 0 THEN q ELSE q + 1

\* (mutant) a duty of 0% is taken for no value
_fan_rpm_from_nvidia_zero_absent(smi, max_rpm) ==
    IF smi.kind = "pct" /\ smi.pct > 0
      THEN <<round_half_even(smi.pct * Max(1, max_rpm), 100)>>
      ELSE <<>>

\* smi.kind: "absent" (no output: tool missing, failed or timed out), "blank"
\* (first line empty), "text" (first line no number), "pct" (first line smi.pct)
_fan_rpm_from_nvidia(smi, max_rpm) ==
    IF smi.kind = "pct"
      THEN <<round_half_even(smi.pct * Max(1, max_rpm), 100)>>
      ELSE <<>>

\* (prefer or "auto").lower(), on the strings the model passes
prefer_lower(prefer) ==
    CASE prefer = "" -> "auto"
      [] prefer = "HWMON" -> "hwmon"
      [] prefer = "Nvidia" -> "nvidia"
      [] OTHER -> prefer

\* (mutant) an explicit preference without the fallback to the other source
fan_rpm_no_fallback(prefer, max_rpm, files, smi) ==
    LET p == prefer_lower(prefer)
        h == _fan_rpm_from_hwmon(files)
        n == _fan_rpm_from_nvidia(smi, max_rpm)
    IN  IF p = "hwmon" THEN (IF h # <<>> THEN h[1] ELSE -1)
        ELSE IF p = "nvidia" THEN (IF n # <<>> THEN n[1] ELSE -1)
        ELSE IF h # <<>> THEN h[1]
        ELSE IF n # <<>> THEN n[1] ELSE -1

fan_rpm(prefer, max_rpm, files, smi) ==
    LET p == prefer_lower(prefer)
        h == _fan_rpm_from_hwmon(files)
        n == _fan_rpm_from_nvidia(smi, max_rpm)
    IN  IF p = "hwmon"
          THEN (IF h # <<>> THEN h[1] ELSE IF n # <<>> THEN n[1] ELSE -1)
        ELSE IF p = "nvidia"
          THEN (IF n # <<>> THEN n[1] ELSE IF h # <<>> THEN h[1] ELSE -1)
        ELSE IF h # <<>> THEN h[1]
        ELSE IF n # <<>> THEN n[1] ELSE -1

(***************************************************************************)
(* Network interface picker.  Interface names are numbers whose order is   *)
(* the alphabetical order of the names ("enp3s0" < "eth0" < "lo" <         *)
(* "wlan0").  The environment of a call: route, the dev of each line that  *)
(* "ip -o route show default" printed; listing, the content of             *)
(* /sys/class/net (<<>>: the directory cannot be listed, else <<set>>);    *)
(* info, per interface, what operstate, carrier and wireless/ show.        *)
(***************************************************************************)
LO == 3
IfNames == {1, 2, 4}

\* what operstate, carrier and wireless/ of one interface can show
InfoKinds ==
    {[up |-> TRUE, carrier |-> TRUE, wireless |-> FALSE],
     [up |-> FALSE, carrier |-> FALSE, wireless |-> FALSE],
     [up |-> TRUE, carrier |-> TRUE, wireless |-> TRUE],
     [up |-> TRUE, carrier |-> FALSE, wireless |-> TRUE],
     [up |-> FALSE, carrier |-> FALSE, wireless |-> TRUE]}
NoInfo == [up |-> FALSE, carrier |-> FALSE, wireless |-> FALSE]

\* _iface_info: an interface without files under /sys/class/net reads as
\* down, no carrier, not wireless
_iface_info(env, i) ==
    IF env.listing # <<>> /\ i \in env.listing[1]
      THEN env.info[i]
      ELSE [up |-> FALSE, carrier |-> FALSE, wireless |-> FALSE]

\* list(dict.fromkeys(devs)): the first occurrence of each name, in order
RECURSIVE dedupe(_, _)
dedupe(devs, seen) ==
    IF devs = <<>> THEN <<>>
    ELSE IF Head(devs) \in seen THEN dedupe(Tail(devs), seen)
    ELSE <<Head(devs)>> \o dedupe(Tail(devs), seen \cup {Head(devs)})

_default_route_ifaces(env) == dedupe(env.route, {})

RECURSIVE ascending(_)
\* sorted(...) of a set of names
ascending(S) ==
    IF S = {} THEN <<>>
    ELSE LET m == CHOOSE x \in S : \A y \in S : x <= y
         IN  <<m>> \o ascending(S \ {m})

_list_candidate_ifaces(env) ==
    IF env.listing = <<>> THEN <<>> ELSE ascending(env.listing[1] \ {LO})

\* (2 if up and carrier else 1 if up else 0) + (1 if not wireless else 0)
score(inf) ==
    (IF inf.up /\ inf.carrier THEN 2 ELSE IF inf.up THEN 1 ELSE 0)
        + (IF ~inf.wireless THEN 1 ELSE 0)

\* the tuples (score, not wireless, name) appended for the names, in order
ranked_of(env, names) ==
    [k \in 1..Len(names) |->
        LET inf == _iface_info(env, names[k])
        IN  <<score(inf), IF ~inf.wireless THEN 1 ELSE 0, names[k]>>]

\* Python's order on the tuples: by the first component that differs
tuple_gt(a, b) ==
    \/ a[1] > b[1]
    \/ a[1] = b[1] /\ a[2] > b[2]
    \/ a[1] = b[1] /\ a[2] = b[2] /\ a[3] > b[3]

RECURSIVE sort_reverse(_)
\* list.sort(reverse=True)
sort_reverse(ts) ==
    IF ts = <<>> THEN <<>>
    ELSE LET m == CHOOSE k \in 1..Len(ts) :
                     \A j \in 1..Len(ts) : j = k \/ ~tuple_gt(ts[j], ts[k])
         IN  <<ts[m]>> \o sort_reverse(SubSeq(ts, 1, m - 1) \o SubSeq(ts, m + 1, Len(ts)))

RECURSIVE first_positive(_)
\* for score, _wired, name in ranked: if score > 0: return name
first_positive(ts) ==
    IF ts = <<>> THEN <<>>
    ELSE IF Head(ts)[1] > 0 THEN <<Head(ts)[3]>>
    ELSE first_positive(Tail(ts))

\* preferred: <<>> for None or "", <<name>> for the override
_pick_iface(preferred, env) ==
    IF preferred # <<>> THEN preferred
    ELSE LET ranked == sort_reverse(ranked_of(env, _default_route_ifaces(env)))
             cands == sort_reverse(ranked_of(env, _list_candidate_ifaces(env)))
             pool == _list_candidate_ifaces(env)
         IN  IF first_positive(ranked) # <<>> THEN first_positive(ranked)
             ELSE IF first_positive(cands) # <<>> THEN first_positive(cands)
             ELSE IF pool # <<>> THEN <<pool[1]>>
             ELSE <<>>

(***************************************************************************)
(* NetMeter.  A meter is the record of its fields iface, rx0, tx0, t0      *)
(* (<<>> for None) and, as an observer, src: the interface whose counters  *)
(* rx0 and tx0 were read from.  lines is what one _read_netdev() call      *)
(* returned: per interface <<>> (no line) or <<rx, tx>>.  Time is in       *)
(* milliseconds, rates are rounded down to whole KB/s.                     *)
(***************************************************************************)
NoLines == [i \in IfNames |-> <<>>]

\* _read_netdev: the lines of /proc/net/dev, [] when the file cannot be read
_read_netdev(dev, ok) == IF ok THEN dev ELSE NoLines

\* <<>> for (None, None)
_parse_netdev(lines, iface) == lines[iface]

\* self.rx0, self.tx0, self.t0 = rx, tx, time.time() on interface iface
primed(m, iface, c, t) ==
    [m EXCEPT !.iface = iface, !.rx0 = <<c[1]>>, !.tx0 = <<c[2]>>, !.t0 = <<t>>,
              !.src = iface]

\* _prime, second half: the first read had no line for the interface, the
\* picker answered again, l2 is the second read
prime_again(m, again, l2, t) ==
    IF again = <<>> THEN [m EXCEPT !.iface = <<>>]
    ELSE IF _parse_netdev(l2, again[1]) # <<>>
      THEN primed(m, again, _parse_netdev(l2, again[1]), t)
    ELSE [m EXCEPT !.iface = again]

\* _prime with the results l1, l2 of its two possible _read_netdev calls
_prime(m, env, l1, l2, t) ==
    IF m.iface = <<>> THEN m
    ELSE IF _parse_netdev(l1, m.iface[1]) # <<>>
      THEN primed(m, m.iface, _parse_netdev(l1, m.iface[1]), t)
    ELSE prime_again(m, _pick_iface(<<>>, env), l2, t)

\* NetMeter(): env_override is ATOMMAN_NET_IFACE (<<>> when unset or blank)
NetMeter(env_override, env, l1, l2, t) ==
    _prime([iface |-> _pick_iface(env_override, env),
            rx0 |-> <<>>, tx0 |-> <<>>, t0 |-> <<>>, src |-> <<>>], env, l1, l2, t)

\* maybe_repick, the switch: new is what the picker answered
switch_to(m, new, env, l1, l2, t) ==
    IF new # <<>> /\ new # m.iface
      THEN _prime([m EXCEPT !.iface = new], env, l1, l2, t)
      ELSE m

maybe_repick(m, env, l1, l2, t) ==
    IF m.iface = <<>>
      THEN _prime([m EXCEPT !.iface = _pick_iface(<<>>, env)], env, l1, l2, t)
    ELSE IF \/ ~_iface_info(env, m.iface[1]).up
            \/ (_iface_info(env, m.iface[1]).wireless /\ ~_iface_info(env, m.iface[1]).carrier)
      THEN switch_to(m, _pick_iface(<<>>, env), env, l1, l2, t)
    ELSE m

\* (rx1 - rx0) / dt / 1024.0 with dt in ms
kb_per_s(d, dt) == (d * 1000) \div (dt * 1024)

\* (mutant) the rate is not floored at zero
floor_zero_none(r) == r

\* max(0.0, rxk)
floor_zero(r) == Max(0, r)

\* rates_ks after its maybe_repick() left the meter m1: c is what its own
\* read has for the interface
sample(m1, c, env, l4, l5, t) ==
    IF c = <<>> \/ m1.rx0 = <<>>
      THEN [m |-> _prime(m1, env, l4, l5, t), ret |-> <<>>, of |-> <<>>]
      ELSE [m |-> primed(m1, m1.iface, c, t),
            ret |-> <<floor_zero(kb_per_s(c[1] - m1.rx0[1], Max(1, t - m1.t0[1]))),
                      floor_zero(kb_per_s(c[2] - m1.tx0[1], Max(1, t - m1.t0[1])))>>,
            of |-> <<m1.src[1], m1.iface[1]>>]

rates_after(m1, env, ls, t) ==
    IF m1.iface = <<>> THEN [m |-> m1, ret |-> <<>>, of |-> <<>>]
    ELSE sample(m1, _parse_netdev(ls[3], m1.iface[1]), env, ls[4], ls[5], t)

\* rates_ks with the results ls[1..5] of the _read_netdev calls it can make:
\* two in maybe_repick's _prime, its own, two in its own _prime.  The result
\* has the meter after the call (m), the value returned (ret: <<>> for
\* (None, None), else <<rxk, txk>>) and, for a rate, the interfaces its
\* baseline and its current sample were read from (of).
rates_ks(m, env, ls, t) == rates_after(maybe_repick(m, env, ls[1], ls[2], t), env, ls, t)

(***************************************************************************)
(* The vendor-label cache.  The lookup that computes a label (dmidecode,   *)
(* lshw, /sys/class/nvme, lsblk) is an external collaborator: a call is    *)
(* given the label the lookup would produce, "" when it finds none.        *)
(***************************************************************************)
TTL == 3600
Keys == {"ram", "disk"}

\* _cache = {"ram":("",0.0),"disk":("",0.0)}
cache_init == [k \in Keys |-> [v |-> "", t |-> 0]]

\* (mutant) an entry never expires
_cache_get_no_expiry(c, k, t) == IF c[k].v # "" THEN <<c[k].v>> ELSE <<>>

\* (mutant) an empty entry is served like any other
_cache_get_serves_empty(c, k, t) == IF t - c[k].t < TTL THEN <<c[k].v>> ELSE <<>>

\* _cache_get(k) at time t: v if v and time.time()-t<ttl else None
_cache_get(c, k, t) ==
    IF c[k].v # "" /\ t - c[k].t < TTL THEN <<c[k].v>> ELSE <<>>

_cache_set(c, k, v, t) == [c EXCEPT ![k] = [v |-> v, t |-> t]]

\* ram_label() / disk_label() at time t, computed being what the lookup
\* produces when it runs: the value returned (ret), the cache after the call
\* and how often the lookup ran (computes)
label(c, k, computed, t) ==
    IF _cache_get(c, k, t) # <<>>
      THEN [ret |-> _cache_get(c, k, t)[1], cache |-> c, computes |-> 0]
      ELSE [ret |-> computed, cache |-> _cache_set(c, k, computed, t), computes |-> 1]

ram_label(c, manu, t) == label(c, "ram", manu, t)
disk_label(c, lbl, t) == label(c, "disk", lbl, t)

(***************************************************************************)
(* Serving one poll: the payload generator of the tile, the write of the   *)
(* reply, update_latest_from_payload.  A sensor read is given what the     *)
(* system has for it (s): <<>> where the file, the tool or the value is    *)
(* missing.  An exception that no handler of the program catches ends the  *)
(* process: the result has raised = TRUE.  st is the provider state the    *)
(* poll works on: the cache, the meter, and the count of the lookups       *)
(* stored per key (stores) and of the meter's samples (samples).           *)
(***************************************************************************)
POST_WRITE_SLEEP == 6   \* ms

\* cpu_usage_pct: snap() takes line [0] of /proc/stat; stat is <<>> when the
\* file has no line (_read gave ""), else <<the percentage>>
cpu_usage_pct(stat) ==
    IF stat = <<>> THEN [raised |-> TRUE] ELSE [raised |-> FALSE, val |-> stat[1]]

\* disk_numbers: os.statvfs("/") raises OSError (statvfs = <<>>) or gives the usage
disk_numbers(statvfs) ==
    IF statvfs = <<>> THEN [raised |-> TRUE] ELSE [raised |-> FALSE, val |-> statvfs[1]]

\* the state after a label call r
after_label(st, k, r) ==
    [st EXCEPT !.cache = r.cache, !.stores[k] = @ + r.computes]

\* whether the rates_ks call r stored a sample or moved the meter m
sampled(m, r) == IF r.ret # <<>> \/ r.m # m THEN 1 ELSE 0

\* the state after a rates_ks call r
after_rates(st, r) == [st EXCEPT !.nm = r.m, !.samples = @ + sampled(st.nm, r)]

\* the five _read_netdev results a rates_ks call can use
reads(s) == [k \in 1..5 |-> _read_netdev(s.netdev, s.netok)]

p_cpu(st, s) ==
    IF cpu_usage_pct(s.stat).raised THEN [raised |-> TRUE, st |-> st]
    ELSE [raised |-> FALSE, st |-> st,
          payload |-> [id |-> CPU, usage |-> cpu_usage_pct(s.stat).val]]

p_gpu(st, s) == [raised |-> FALSE, st |-> st, payload |-> [id |-> GPU]]

mem_payload(st, r) ==
    [raised |-> FALSE, st |-> after_label(st, "ram", r),
     payload |-> [id |-> MEM, label |-> r.ret]]

p_mem(st, s, t) == mem_payload(st, ram_label(st.cache, s.manu, t))

dsk_payload(st, r) ==
    [raised |-> FALSE, st |-> after_label(st, "disk", r),
     payload |-> [id |-> DSK, label |-> r.ret]]

p_dsk(st, s, t) ==
    IF disk_numbers(s.statvfs).raised THEN [raised |-> TRUE, st |-> st]
    ELSE dsk_payload(st, disk_label(st.cache, s.lbl, t))

p_date(st, s) == [raised |-> FALSE, st |-> st, payload |-> [id |-> DAT]]

net_payload(st, r, rpm) ==
    [raised |-> FALSE, st |-> after_rates(st, r),
     payload |-> [id |-> NET, speed |-> rpm, network |-> r.ret]]

p_net(st, s, env, ms) ==
    net_payload(st, rates_ks(st.nm, env, reads(s), ms), fan_rpm("auto", 5000, s.hwmon, s.smi))

p_vol(st, s) ==
    [raised |-> FALSE, st |-> st,
     payload |-> [id |-> VOL, volume |-> IF s.vol = <<>> THEN -1 ELSE s.vol[1]]]

p_bat(st, s) ==
    [raised |-> FALSE, st |-> st,
     payload |-> [id |-> BAT, battery |-> IF s.bat = <<>> THEN 177 ELSE s.bat[1]]]

\* maker() of the tile, at wall time t (s) and meter time ms
make(tile, st, s, env, t, ms) ==
    CASE tile = CPU -> p_cpu(st, s)
      [] tile = GPU -> p_gpu(st, s)
      [] tile = MEM -> p_mem(st, s, t)
      [] tile = DSK -> p_dsk(st, s, t)
      [] tile = DAT -> p_date(st, s)
      [] tile = NET -> p_net(st, s, env, ms)
      [] tile = VOL -> p_vol(st, s)
      [] tile = BAT -> p_bat(st, s)

\* update_latest_from_payload: reads the sensors of the tile once more
update_latest_from_payload(id_byte, st, s, env, t, ms) ==
    CASE id_byte = CPU -> [raised |-> cpu_usage_pct(s.stat).raised, st |-> st]
      [] id_byte = MEM ->
            [raised |-> FALSE, st |-> after_label(st, "ram", ram_label(st.cache, s.manu, t))]
      [] id_byte = DSK ->
            IF disk_numbers(s.statvfs).raised THEN [raised |-> TRUE, st |-> st]
            ELSE [raised |-> FALSE,
                  st |-> after_label(st, "disk", disk_label(st.cache, s.lbl, t))]
      [] id_byte = NET ->
            [raised |-> FALSE, st |-> after_rates(st, rates_ks(st.nm, env, reads(s), ms))]
      [] OTHER -> [raised |-> FALSE, st |-> st]

\* ser.write(frm) ... update_latest_from_payload(tile, ...), p being what
\* maker() returned
reply_and_update(tile, p, s, env, t, ms) ==
    IF p.raised THEN [raised |-> TRUE, written |-> FALSE, payload |-> <<>>, st |-> p.st]
    ELSE [raised |-> update_latest_from_payload(tile, p.st, s, env, t, ms).raised,
          written |-> TRUE, payload |-> <<p.payload>>,
          st |-> update_latest_from_payload(tile, p.st, s, env, t, ms).st]

\* one received poll, served for the tile: maker(), reply, update
serve(tile, st, s, env, t, ms) ==
    reply_and_update(tile, make(tile, st, s, env, t, ms), s, env, t, ms + POST_WRITE_SLEEP)

(***************************************************************************)
(* The program                                                             *)
(***************************************************************************)
FIdle == fcall = [fn |-> "none"] /\ fres = <<>> /\ fdone = FALSE

\* a meter that found no interface, nothing read yet
NetIdle ==
    /\ nm = [iface |-> <<>>, rx0 |-> <<>>, tx0 |-> <<>>, t0 |-> <<>>, src |-> <<>>]
    /\ net = [route |-> <<>>, listing |-> <<>>, info |-> [i \in IfNames |-> NoInfo]]
    /\ netdev = NoLines
    /\ clk = 0
    /\ rates = [ret |-> <<>>, of |-> <<>>, old |-> <<>>, pre |-> FALSE, up |-> FALSE]
    /\ ncalls = 0

\* the cache as the module defines it, no label asked for yet
CacheIdle ==
    /\ cache = cache_init
    /\ wall = 0
    /\ lab = [key |-> "none"]
    /\ yielded = [k \in Keys |-> "none"]
    /\ served = [tile |-> 0]

InitMain ==
    /\ pc = "for"
    /\ attempt_idx = 0
    /\ activated = FALSE
    /\ start = 0
    /\ now = 0
    /\ idx = 0
    /\ boot_replies = 0
    /\ enq_times = <<>>
    /\ sidx = 0
    /\ rx = <<>>
    /\ out = <<>>
    /\ nWritten = 0
    /\ pulses = 0
    /\ dtr = TRUE
    /\ nPolls = 0
    /\ enq = <<>>
    /\ hist = <<>>
    /\ bootSeen = 0
    /\ failed = 0
    /\ sReplies = 0

Init ==
    /\ InitMain
    /\ attempts \in 0..MaxAttempts
    /\ FIdle
    /\ NetIdle
    /\ CacheIdle

Next ==
    \/ StartAttempt
    \/ AttemptsExhausted
    \/ UnlockReply
    \/ UnlockDiscard
    \/ UnlockTimeout
    \/ AfterAttempt
    \/ SteadyReply
    \/ SteadyDiscard

Spec == Init /\ [][Next]_vars

\* The process keeps running: the loops never stop on their own.
SpecLive == Spec /\ WF_vars(Next)

(***************************************************************************)
(* The meter in a changing network: interfaces 1 and 2 change state, their *)
(* counters move or are reset, /proc/net/dev is at times unreadable.       *)
(***************************************************************************)
NetIfs == {1, 2}
NetInfoKinds ==
    {[up |-> TRUE, carrier |-> TRUE, wireless |-> FALSE],
     [up |-> FALSE, carrier |-> FALSE, wireless |-> FALSE],
     [up |-> TRUE, carrier |-> FALSE, wireless |-> TRUE]}
\* interface 1 always has its line, its counters go up or down; the line of
\* interface 2 comes and goes
CounterVals(i) == IF i = 1 THEN {<<0, 4096>>, <<4096, 0>>} ELSE {<<>>, <<0, 4096>>}

UpWithCarrier(env, iface) ==
    iface # <<>> /\ _iface_info(env, iface[1]).up /\ _iface_info(env, iface[1]).carrier

\* an interface changes its state
IfaceChange ==
    /\ \E i \in NetIfs, k \in NetInfoKinds :
          /\ net.info[i] # k
          /\ net' = [net EXCEPT !.info[i] = k]
    /\ UNCHANGED <<nm, netdev, clk, rates, ncalls>>
    /\ UNCHANGED <<pvars, hvars, fvars, cvars, served>>

\* the counters of an interface move, are reset, or its line comes or goes
CountersChange ==
    /\ \E i \in NetIfs : \E c \in CounterVals(i) :
          /\ netdev[i] # c
          /\ netdev' = [netdev EXCEPT ![i] = c]
    /\ UNCHANGED <<nm, net, clk, rates, ncalls>>
    /\ UNCHANGED <<pvars, hvars, fvars, cvars, served>>

NetTick ==
    /\ clk < MaxNetClk
    /\ clk' = clk + 1
    /\ UNCHANGED <<nm, net, netdev, rates, ncalls>>
    /\ UNCHANGED <<pvars, hvars, fvars, cvars, served>>

\* _nm.rates_ks(); each _read_netdev of the call succeeds or fails
RatesCall ==
    /\ ncalls < MaxRatesCalls
    /\ \E ok \in [1..5 -> BOOLEAN] :
          \E r \in {rates_ks(nm, net, [k \in 1..5 |-> _read_netdev(netdev, ok[k])], clk)} :
              /\ nm' = r.m
              /\ rates' = [ret |-> r.ret, of |-> r.of, old |-> nm.iface,
                           pre |-> /\ rates.up
                                   /\ ~_iface_info(net, nm.iface[1]).up
                                   /\ _pick_iface(<<>>, net) \notin {<<>>, nm.iface},
                           up |-> UpWithCarrier(net, r.m.iface)]
    /\ ncalls' = ncalls + 1
    /\ UNCHANGED <<net, netdev, clk>>
    /\ UNCHANGED <<pvars, hvars, fvars, cvars, served>>

InitNet ==
    /\ InitMain
    /\ attempts = 0
    /\ FIdle
    /\ net \in {[route |-> r, listing |-> <<NetIfs \cup {LO}>>,
                 info |-> [i \in IfNames |-> IF i \in NetIfs THEN f[i] ELSE NoInfo]] :
                    r \in {<<1, 2>>}, f \in [NetIfs -> NetInfoKinds]}
    /\ netdev \in {[i \in IfNames |-> IF i \in NetIfs THEN c[i] ELSE <<>>] :
                    c \in {g \in [NetIfs -> {<<>>, <<0, 4096>>, <<4096, 0>>}] :
                              \A i \in NetIfs : g[i] \in CounterVals(i)}}
    /\ clk = 0
    /\ nm \in {NetMeter(o, net, _read_netdev(netdev, a), _read_netdev(netdev, b), clk) :
                    o \in {<<>>, <<1>>}, a \in BOOLEAN, b \in BOOLEAN}
    /\ rates = [ret |-> <<>>, of |-> <<>>, old |-> <<>>, pre |-> FALSE,
                up |-> UpWithCarrier(net, nm.iface)]
    /\ ncalls = 0
    /\ CacheIdle

NextNet ==
    \/ IfaceChange
    \/ CountersChange
    \/ NetTick
    \/ RatesCall

SpecNet == InitNet /\ [][NextNet]_vars

(***************************************************************************)
(* The label cache over time: labels are asked for, the wall clock moves   *)
(* (time.time() can also be set back), the lookups find a label or none.   *)
(***************************************************************************)
Instants == {0, 1, TTL - 1, TTL, TTL + 1, 2 * TTL}
RamLabels == {"", "Micron", "Samsung"}
DiskLabels == {"", "KINGSTON"}

WallChange ==
    /\ \E t \in Instants \ {wall} : wall' = t
    /\ UNCHANGED <<cache, lab, yielded>>
    /\ UNCHANGED <<pvars, hvars, fvars, nvars, served>>

\* what one label call leaves behind
Labelled(k, r, computed) ==
    /\ cache' = r.cache
    /\ lab' = [key |-> k, was |-> cache[k], prev |-> yielded[k], at |-> wall,
               found |-> computed, ret |-> r.ret, computes |-> r.computes]
    /\ yielded' = [yielded EXCEPT ![k] = IF r.computes = 0 THEN "cached"
                                         ELSE IF computed = "" THEN "empty"
                                         ELSE "found"]
    /\ UNCHANGED wall
    /\ UNCHANGED <<pvars, hvars, fvars, nvars, served>>

CallRamLabel ==
    \E manu \in RamLabels : Labelled("ram", ram_label(cache, manu, wall), manu)

CallDiskLabel ==
    \E lbl \in DiskLabels : Labelled("disk", disk_label(cache, lbl, wall), lbl)

InitCache ==
    /\ InitMain
    /\ attempts = 0
    /\ FIdle
    /\ NetIdle
    /\ CacheIdle

NextCache ==
    \/ WallChange
    \/ CallRamLabel
    \/ CallDiskLabel

SpecCache == InitCache /\ [][NextCache]_vars

(***************************************************************************)
(* The steady-state loop long after its start: the run is picked up where  *)
(* the rotation index is a few replies before its wrap; the counters of    *)
(* the history start with that state.                                      *)
(***************************************************************************)
InitWrap ==
    /\ pc = "steady"
    /\ attempts = 0
    /\ attempt_idx = 0
    /\ activated = FALSE
    /\ start = 0
    /\ now = 0
    /\ idx = 0
    /\ boot_replies = 0
    /\ enq_times = <<>>
    /\ sidx \in (IDX_WRAP - 3)..(IDX_WRAP - 1)
    /\ rx = <<>>
    /\ out = build_reply(full_tile(sidx - 1), steady_seq(full_tile(sidx - 1), 49),
                         maker(full_tile(sidx - 1)))
    /\ nWritten = sidx
    /\ pulses = 0
    /\ dtr = TRUE
    /\ nPolls = 0
    /\ enq = <<>>
    /\ hist = <<>>
    /\ bootSeen = 0
    /\ failed = 0
    /\ sReplies = 0
    /\ FIdle
    /\ NetIdle
    /\ CacheIdle

NextWrap ==
    \/ SteadyReply
    \/ SteadyDiscard

SpecWrap == InitWrap /\ [][NextWrap]_vars

(***************************************************************************)
(* Polls served with their sensors.  A step starts where read_enq has      *)
(* returned a valid poll, in unlock_attempt or in the steady-state loop;   *)
(* when and why an attempt ends is left open here (EndUnlock).  The        *)
(* sensors of the tile are there or missing, anew for every poll, and the  *)
(* interfaces and their counters change between polls.  The                *)
(* wall clock stands still: no cache entry expires between these polls.    *)
(***************************************************************************)
AllThere(dev) ==
    [stat |-> <<37>>, statvfs |-> <<50>>, manu |-> "Micron", lbl |-> "KINGSTON",
     vol |-> <<40>>, bat |-> <<80>>, hwmon |-> <<<<1200>>>>,
     smi |-> [kind |-> "absent", pct |-> 0], netdev |-> dev, netok |-> TRUE]

\* what the sensors of one tile can be at one poll
SensorCases(tile, dev) ==
    CASE tile = CPU -> {[AllThere(dev) EXCEPT !.stat = x] : x \in {<<>>, <<37>>}}
      [] tile = MEM -> {[AllThere(dev) EXCEPT !.manu = x] : x \in RamLabels}
      [] tile = DSK -> {[AllThere(dev) EXCEPT !.statvfs = x, !.lbl = y] :
                            x \in {<<>>, <<50>>}, y \in DiskLabels}
      [] tile = NET -> {[AllThere(dev) EXCEPT !.netok = x, !.hwmon = y] :
                            x \in BOOLEAN, y \in {<<>>, <<<<1200>>>>}}
      [] tile = VOL -> {[AllThere(dev) EXCEPT !.vol = x] : x \in {<<>>, <<40>>}}
      [] tile = BAT -> {[AllThere(dev) EXCEPT !.bat = x] : x \in {<<>>, <<80>>}}
      [] OTHER -> {AllThere(dev)}

\* the provider state a poll starts with
AtPoll == [cache |-> cache, nm |-> nm, stores |-> [k \in Keys |-> 0], samples |-> 0]

\* what one served poll leaves behind
Served(tile, s, r) ==
    /\ cache' = r.st.cache
    /\ nm' = r.st.nm
    /\ clk' = IF tile = NET /\ r.written THEN clk + POST_WRITE_SLEEP ELSE clk
    /\ nWritten' = nWritten + (IF r.written THEN 1 ELSE 0)
    /\ served' = [tile |-> tile, sens |-> s, raised |-> r.raised, written |-> r.written,
                  payload |-> r.payload, stores |-> r.st.stores, samples |-> r.st.samples]

\* one valid poll of unlock_attempt's loop
ServeUnlock ==
    /\ pc = "unlock"
    /\ idx < MaxUnlockPolls
    /\ \E s \in SensorCases(unlock_tile(idx), netdev) :
         \E r \in {serve(unlock_tile(idx), AtPoll, s, net, wall, clk)} :
            /\ Served(unlock_tile(idx), s, r)
            /\ IF r.raised
                 THEN pc' = "dead" /\ UNCHANGED idx
                 ELSE idx' = idx + 1 /\ UNCHANGED pc
    /\ UNCHANGED <<attempts, attempt_idx, activated, start, now, boot_replies,
                   enq_times, sidx, rx, out, pulses, dtr>>
    /\ UNCHANGED <<hvars, fvars, net, netdev, rates, ncalls, wall, lab, yielded>>

\* the attempts are over: main goes on to the steady-state loop
EndUnlock ==
    /\ pc = "unlock"
    /\ pc' = "steady"
    /\ UNCHANGED <<attempts, attempt_idx, activated, start, now, idx, boot_replies,
                   enq_times, sidx, rx, out, nWritten, pulses, dtr>>
    /\ UNCHANGED <<hvars, fvars, svars>>

\* one valid poll of the steady-state loop
ServeSteady ==
    /\ pc = "steady"
    /\ sReplies < MaxSteadyPolls
    /\ \E s \in SensorCases(full_tile(sidx), netdev) :
         \E r \in {serve(full_tile(sidx), AtPoll, s, net, wall, clk)} :
            /\ Served(full_tile(sidx), s, r)
            /\ IF r.raised
                 THEN pc' = "dead" /\ UNCHANGED <<sidx, sReplies>>
                 ELSE sidx' = next_idx(sidx) /\ sReplies' = sReplies + 1 /\ UNCHANGED pc
    /\ UNCHANGED <<attempts, attempt_idx, activated, start, now, idx, boot_replies,
                   enq_times, rx, out, pulses, dtr>>
    /\ UNCHANGED <<nPolls, enq, hist, bootSeen, failed>>
    /\ UNCHANGED <<fvars, net, netdev, rates, ncalls, wall, lab, yielded>>

InitServe ==
    /\ pc \in {"unlock", "steady"}
    /\ attempts = 1
    /\ attempt_idx = IF pc = "unlock" THEN 1 ELSE 0
    /\ activated = FALSE
    /\ start = 0
    /\ now = 0
    /\ idx = 0
    /\ boot_replies = 0
    /\ enq_times = <<>>
    /\ sidx = 0
    /\ rx = <<>>
    /\ out = <<>>
    /\ nWritten = 0
    /\ pulses = 0
    /\ dtr = TRUE
    /\ nPolls = 0
    /\ enq = <<>>
    /\ hist = <<>>
    /\ bootSeen = 0
    /\ failed = 0
    /\ sReplies = 0
    /\ FIdle
    /\ CacheIdle
    /\ net = [route |-> <<1, 2>>, listing |-> <<NetIfs \cup {LO}>>,
              info |-> [i \in IfNames |->
                            IF i = 1 THEN [up |-> TRUE, carrier |-> TRUE, wireless |-> FALSE]
                            ELSE NoInfo]]
    /\ netdev \in {[i \in IfNames |-> IF i = 1 THEN c ELSE <<>>] : c \in CounterVals(1)}
    /\ clk = 0
    /\ nm = NetMeter(<<>>, net, netdev, netdev, clk)
    /\ rates = [ret |-> <<>>, of |-> <<>>, old |-> <<>>, pre |-> FALSE, up |-> TRUE]
    /\ ncalls = 0

NextServe ==
    \/ ServeUnlock
    \/ EndUnlock
    \/ ServeSteady
    \/ CountersChange
    \/ IfaceChange

SpecServe == InitServe /\ [][NextServe]_vars

(***************************************************************************)
(* Calls of the pure functions on bounded sets of arguments                *)
(***************************************************************************)
Bytes == 0..255
\* seven-byte frames whose six fixed bytes are each right or wrong
FrameSamples ==
    {<<b1, b2, s, t1, t2, t3, t4>> :
        b1 \in {170, 171, 0}, b2 \in {5, 4, 170}, s \in {57, 170},
        t1 \in {204, 205, 0}, t2 \in {51, 50, 255}, t3 \in {195, 60, 0}, t4 \in {60, 61, 195}}
Streams ==
    {Poll(s) : s \in Bytes} \cup FrameSamples
        \cup {SubSeq(Poll(57), 1, k) : k \in 0..6}
        \cup {Poll(57) \o <<170, 5>>, NoisyPoll, StrayThenPolls, BadTrailerFrame \o <<170>>,
              <<170, 4>> \o Poll(49)}

FanReading == {<<>>, <<0>>, <<1200>>, <<3000>>}
HwmonFiles ==
    {<<>>} \cup {<<a>> : a \in FanReading} \cup {<<a, b>> : a \in FanReading, b \in FanReading}
SmiOutputs ==
    {[kind |-> k, pct |-> 0] : k \in {"absent", "blank", "text"}}
        \cup {[kind |-> "pct", pct |-> p] : p \in {0, 33, 50, 100}}
PreferValues == {"", "auto", "hwmon", "nvidia", "HWMON", "Nvidia", "fans"}
MaxRpmValues == {0, 25, 4000, 5000}

ReadEnqCalls == {[fn |-> "read_enq", stream |-> s] : s \in Streams}
FanCalls ==
    {[fn |-> "fan_rpm", prefer |-> p, max_rpm |-> m, hwmon |-> h, nvidia |-> n] :
        p \in PreferValues, m \in MaxRpmValues, h \in HwmonFiles, n \in SmiOutputs}

FanHwmonCalls == {[fn |-> "_fan_rpm_from_hwmon", hwmon |-> h] : h \in HwmonFiles}
FanNvidiaCalls ==
    {[fn |-> "_fan_rpm_from_nvidia", max_rpm |-> m, nvidia |-> n] :
        m \in MaxRpmValues, n \in SmiOutputs}

CallFanHwmon ==
    /\ ~fdone
    /\ fcall.fn = "_fan_rpm_from_hwmon"
    /\ fres' = _fan_rpm_from_hwmon(fcall.hwmon)
    /\ fdone' = TRUE
    /\ UNCHANGED <<fcall, pvars, hvars, svars>>

CallFanNvidia ==
    /\ ~fdone
    /\ fcall.fn = "_fan_rpm_from_nvidia"
    /\ fres' = _fan_rpm_from_nvidia(fcall.nvidia, fcall.max_rpm)
    /\ fdone' = TRUE
    /\ UNCHANGED <<fcall, pvars, hvars, svars>>

Routes == {<<>>} \cup {<<a>> : a \in IfNames} \cup {<<a, b>> : a \in IfNames, b \in IfNames}
Listings == {<<>>} \cup {<<S \cup {LO}>> : S \in SUBSET IfNames}
NetEnvs ==
    {e \in [route : Routes, listing : Listings, info : [IfNames -> InfoKinds]] :
        \A i \in IfNames :
            (e.listing = <<>> \/ i \notin e.listing[1]) => e.info[i] = NoInfo}
PickCalls ==
    {[fn |-> "_pick_iface", preferred |-> p, env |-> e] :
        p \in {<<>>, <<4>>}, e \in NetEnvs}

CallPickIface ==
    /\ ~fdone
    /\ fcall.fn = "_pick_iface"
    /\ fres' = _pick_iface(fcall.preferred, fcall.env)
    /\ fdone' = TRUE
    /\ UNCHANGED <<fcall, pvars, hvars, svars>>

\* texts of 'A', '{', the degree sign (Latin-1, above 127) and the euro sign
\* (not in Latin-1)
TxtChars == {65, 123, 176, 8364}
Texts == UNION {[1..n -> TxtChars] : n \in 0..MaxTxt}
BuildReplyCalls ==
    {[fn |-> "build_reply", id_byte |-> t, seq_ascii |-> q, txt |-> x] :
        t \in {CPU, NET, BAT}, q \in {50, 60, 170}, x \in Texts}

CallBuildReply ==
    /\ ~fdone
    /\ fcall.fn = "build_reply"
    /\ fres' = build_reply(fcall.id_byte, fcall.seq_ascii, fcall.txt)
    /\ fdone' = TRUE
    /\ UNCHANGED <<fcall, pvars, hvars, svars>>

CallReadEnq ==
    /\ ~fdone
    /\ fcall.fn = "read_enq"
    /\ fres' = read_enq(fcall.stream)
    /\ fdone' = TRUE
    /\ UNCHANGED <<fcall, pvars, hvars, svars>>

CallFanRpm ==
    /\ ~fdone
    /\ fcall.fn = "fan_rpm"
    /\ fres' = fan_rpm(fcall.prefer, fcall.max_rpm, fcall.hwmon, fcall.nvidia)
    /\ fdone' = TRUE
    /\ UNCHANGED <<fcall, pvars, hvars, svars>>

InitFn ==
    /\ InitMain
    /\ attempts = 0
    /\ fcall \in ReadEnqCalls \cup FanCalls \cup FanHwmonCalls \cup FanNvidiaCalls
                \cup PickCalls \cup BuildReplyCalls
    /\ fres = <<>>
    /\ fdone = FALSE
    /\ NetIdle
    /\ CacheIdle

NextFn ==
    \/ CallReadEnq
    \/ CallFanRpm
    \/ CallFanHwmon
    \/ CallFanNvidia
    \/ CallPickIface
    \/ CallBuildReply

SpecFn == InitFn /\ [][NextFn]_vars

(***************************************************************************)
(* Properties                                                              *)
(***************************************************************************)
InAttempt == pc \in {"unlock", "ret"}

\* arrivals of the current attempt within ENQ_WINDOW of the latest one
InTrailingWindow ==
    Cardinality({i \in DOMAIN hist : hist[Len(hist)] - hist[i] <= 2})

TilePos(tile) == CHOOSE i \in 1..8 : FULL_ROT[i] = tile

\* the code of each tile, as the protocol documents it
FixedCode(tile) ==
    CASE tile = 83 -> 50 [] tile = 54 -> 51 [] tile = 73 -> 52 [] tile = 79 -> 53
      [] tile = 107 -> 54 [] tile = 39 -> 55 [] tile = 16 -> 57 [] tile = 26 -> 50

\* C1: in an unlock attempt, once a reply has been sent the attempt is
\* ACTIVATED (and has returned) if and only if at least 3 of the polls it
\* answered carried '0'..'9' or '<' and at least 5 of its polls arrived within
\* the 2 seconds that end with the latest arrival; without a reply sent it is
\* not ACTIVATED.
C1_ActivationIff ==
    InAttempt =>
        /\ hist = <<>> => ~activated
        /\ hist # <<>> => (activated <=> (bootSeen >= 3 /\ InTrailingWindow >= 5))
        /\ activated => pc = "ret" /\ failed < attempt_idx
        /\ boot_replies = bootSeen

\* exactly 3 boot-style polls among exactly 5 arrivals within 2 seconds:
\* ACTIVATED inside the attempt window
C1_Witness ==
    /\ pc = "ret" /\ activated
    /\ bootSeen = 3 /\ Len(hist) = 5 /\ hist[5] - hist[1] = 2
    /\ now - start < UNLOCK_WINDOW

\* C2 as stated: a pulse follows attempt k exactly when k failed and k < N,
\* so once main is past the attempts made so far the number of pulses is the
\* number of failed attempts k with k < N.
C2_PulseOnlyBetween ==
    pc \in {"for", "steady"} =>
        pulses = Cardinality({k \in 1..failed : k < attempts})

\* C2 amended: attempt k that times out is followed by one pulse, also when
\* k = N; then attempt k+1 starts if k < N and the machine is FAILED (steady
\* state, not activated) if k = N; no pulse follows an attempt that activated.
C2_PulseAfterEveryFailure ==
    /\ pc \in {"for", "steady"} => pulses = failed
    /\ pc = "unlock" => pulses = failed /\ failed = attempt_idx - 1
    /\ pc = "ret" => pulses = attempt_idx - 1
                     /\ failed = (IF activated THEN attempt_idx - 1 ELSE attempt_idx)
    /\ pc = "for" => failed = attempt_idx /\ ~activated
    /\ pc = "steady" /\ ~activated => failed = attempts
    /\ pc = "steady" /\ activated => failed = attempt_idx - 1
    /\ dtr

\* both attempts of N = 2 timed out: two pulses, then FAILED
C2_Witness ==
    pc = "steady" /\ ~activated /\ attempts = 2 /\ failed = 2 /\ pulses = 2

\* C3: the handshake ends in the steady-state loop, which is never left;
\* attempts are numbered 1..N in order and none follows one that activated;
\* without activation the steady state is entered after exactly N attempts.
C3_HandshakeEnds ==
    /\ <>(pc = "steady")
    /\ [](attempt_idx \in 0..attempts /\ failed <= attempt_idx)
    /\ [](pc = "steady" => (activated \/ failed = attempts))
    /\ [][/\ attempt_idx' \in {attempt_idx, attempt_idx + 1}
          /\ (pc = "steady" => pc' = "steady")
          /\ (activated /\ pc # "for" => attempt_idx' = attempt_idx)]_vars

\* FAILED after N = MaxAttempts attempts, and the steady state serves polls
C3_Witness ==
    /\ pc = "steady" /\ ~activated /\ attempts = MaxAttempts
    /\ failed = attempts /\ sReplies >= 2

\* C4: a valid poll read in steady state is answered by exactly one reply,
\* the first one the CPU tile and every other the tile after the previous
\* reply's in CPU, GPU, MEM, DSK, DAT, NET, VOL, BAT (cyclically); the index
\* step keeps that order, also where the index wraps.
C4_SteadyRoundRobin ==
    /\ [][pc = "steady" /\ nPolls' # nPolls =>
             /\ nPolls' = nPolls + 1
             /\ nWritten' = nWritten + 1
             /\ sReplies' = sReplies + 1
             /\ out'[2] = (IF sReplies = 0 THEN 83
                           ELSE FULL_ROT[(TilePos(out[2]) % 8) + 1])]_vars
    /\ [](pc = "steady" =>
             /\ sidx < IDX_WRAP
             /\ \A i \in {sidx, IDX_WRAP - 2, IDX_WRAP - 1} :
                    TilePos(full_tile(next_idx(i))) = (TilePos(full_tile(i)) % 8) + 1)

\* the ninth steady-state reply is the CPU tile again
C4_Witness ==
    pc = "steady" /\ sReplies = 9 /\ out[2] = CPU

\* C5: the header of a steady-state reply is AA, the tile of the rotation
\* position, 00 and that tile's fixed code, whatever byte the poll carried.
C5_FixedSeq ==
    pc = "steady" /\ sReplies > 0 =>
        /\ out[2] = FULL_ROT[((sReplies - 1) % 8) + 1]
        /\ SubSeq(out, 1, 4) = <<170, out[2], 0, FixedCode(out[2])>>

\* the VOL tile answered with '9' a poll that carried ':'
C5_Witness ==
    pc = "steady" /\ sReplies = 7 /\ enq = <<58>> /\ out[2] = VOL /\ out[4] = 57

\* C6: in an unlock attempt the reply to the n-th valid poll echoes that
\* poll's sequence byte and carries tile n of CPU, GPU, MEM, CPU, ...; until
\* the handshake has ended no other tile is written.
C6_UnlockEcho ==
    /\ InAttempt /\ hist # <<>> =>
          /\ out[4] = enq[1]
          /\ out[2] = UNLOCK_ROT[((Len(hist) - 1) % 3) + 1]
          /\ out[1] = 170 /\ out[3] = 0
    /\ pc # "steady" /\ out # <<>> => out[2] \in {83, 54, 73}

\* the fourth reply of an attempt is CPU again and echoes ':'
C6_Witness ==
    pc = "unlock" /\ Len(hist) = 4 /\ out[2] = CPU /\ out[4] = 58 /\ enq = <<58>>

\* C7: the frames written by a loop are as many as the valid polls it has
\* read; a frame is written only in the step that reads a valid poll, one
\* frame per poll, and none while main is between attempts.
C7_NoUnsolicitedWrite ==
    /\ [](nWritten = nPolls)
    /\ [][/\ (nWritten' > nWritten \/ out' # out) =>
                /\ nWritten' = nWritten + 1
                /\ nPolls' = nPolls + 1
                /\ pc \in {"unlock", "steady"}
          /\ nPolls' > nPolls => nWritten' = nWritten + 1
          /\ pc \in {"for", "ret"} => out' = out]_vars

\* after a failed attempt and its pulse: three polls, three frames, a noise
\* byte read and nothing written for it
C7_Witness ==
    pc = "steady" /\ pulses >= 1 /\ nPolls = 3 /\ nWritten = 3 /\ rx # <<>>

\* C8: read_enq returns the third byte of AA 05 <seq> CC 33 C3 3C and None
\* for an input with a wrong fixed byte or too short.
C8_ReadEnq ==
    fdone /\ fcall.fn = "read_enq" =>
        LET s == fcall.stream
            wellFormed ==
                /\ Len(s) >= 7
                /\ s[1] = 170 /\ s[2] = 5
                /\ s[4] = 204 /\ s[5] = 51 /\ s[6] = 195 /\ s[7] = 60
        IN  fres.ret = (IF wellFormed THEN <<s[3]>> ELSE <<>>)

\* a poll whose sequence byte is itself AA
C8_Witness ==
    /\ fdone /\ fcall.fn = "read_enq"
    /\ fcall.stream = <<170, 5, 170, 204, 51, 195, 60>> /\ fres.ret = <<170>>

\* C9: an iteration whose read_enq returns None writes nothing and leaves the
\* rotation index, the boot-reply counter and the arrival list as they were;
\* the tile of each reply is the one at the position given by the number of
\* valid polls answered, whatever was discarded in between.
C9_BadFrameDiscarded ==
    /\ [][pc' = pc /\ pc \in {"unlock", "steady"} /\ nPolls' = nPolls =>
             UNCHANGED <<out, nWritten, idx, sidx, boot_replies, enq_times, activated>>]_vars
    /\ [](pc = "unlock" /\ nPolls > 0 => out[2] = UNLOCK_ROT[((nPolls - 1) % 3) + 1])
    /\ [](pc = "steady" /\ nPolls > 0 => out[2] = FULL_ROT[((nPolls - 1) % 8) + 1])

\* the poll behind a discarded noise byte is the third one answered: MEM
C9_Witness ==
    pc = "unlock" /\ enq = <<49>> /\ nPolls = 3 /\ out[2] = MEM /\ boot_replies = 3

\* C10: the hwmon value first under 'auto' and 'hwmon', the nvidia value first
\* under 'nvidia', the other source when the first has no value, and -1
\* exactly when neither has one.
C10_FanFallback ==
    fdone /\ fcall.fn = "fan_rpm" =>
        LET p == fcall.prefer
            h == _fan_rpm_from_hwmon(fcall.hwmon)
            n == _fan_rpm_from_nvidia(fcall.nvidia, fcall.max_rpm)
        IN  /\ p \in {"auto", "hwmon"} =>
                fres = (IF h # <<>> THEN h[1] ELSE IF n # <<>> THEN n[1] ELSE -1)
            /\ p = "nvidia" =>
                fres = (IF n # <<>> THEN n[1] ELSE IF h # <<>> THEN h[1] ELSE -1)
            /\ (fres = -1) <=> (h = <<>> /\ n = <<>>)
            /\ fres \in Int
            /\ (/\ p \in {"auto", "hwmon"} /\ h = <<>>
                /\ fcall.nvidia = [kind |-> "pct", pct |-> 50]
                /\ fcall.max_rpm = 4000) => fres = 2000

\* preference hwmon, the only hwmon reading 0, nvidia at 50% of 4000
C10_Witness ==
    /\ fdone /\ fcall.fn = "fan_rpm" /\ fcall.prefer = "hwmon"
    /\ fcall.hwmon = <<<<0>>>> /\ fcall.nvidia = [kind |-> "pct", pct |-> 50]
    /\ fcall.max_rpm = 4000 /\ fres = 2000

\* the nonzero readings among the fan inputs that could be read
NonzeroReadings(files) ==
    {files[i][1] : i \in {j \in DOMAIN files : files[j] # <<>> /\ files[j][1] # 0}}

ScoreIn(env, i) == score(_iface_info(env, i))

Elems(seq) == {seq[k] : k \in DOMAIN seq}

BestScore(env, S) == CHOOSE b \in 0..3 :
    (\E i \in S : ScoreIn(env, i) = b) /\ (\A i \in S : ScoreIn(env, i) <= b)

\* C12 as stated: without override, when a default-route interface scores
\* above 0, the result is a default-route interface of the highest score, the
\* one the routing table listed first among those of that score.
C12_PickFirstListed ==
    fdone /\ fcall.fn = "_pick_iface" /\ fcall.preferred = <<>> =>
        LET env == fcall.env
            d == Elems(env.route)
        IN  (\E i \in d : ScoreIn(env, i) > 0) =>
                /\ fres # <<>> /\ fres[1] \in d
                /\ ScoreIn(env, fres[1]) = BestScore(env, d)
                /\ \E k \in DOMAIN env.route :
                      /\ env.route[k] = fres[1]
                      /\ \A j \in 1..(k - 1) :
                            ScoreIn(env, env.route[j]) # BestScore(env, d)

\* what _pick_iface does instead: among the default-route interfaces of the
\* highest score a wired one wins, and among those the name that sorts last.
C12_PickSortedLast ==
    fdone /\ fcall.fn = "_pick_iface" /\ fcall.preferred = <<>> =>
        LET env == fcall.env
            d == Elems(env.route)
        IN  (\E i \in d : ScoreIn(env, i) > 0) =>
                /\ fres # <<>> /\ fres[1] \in d
                /\ ScoreIn(env, fres[1]) = BestScore(env, d)
                /\ \A i \in d :
                      ScoreIn(env, i) = BestScore(env, d) /\ i # fres[1] =>
                        \/ ~_iface_info(env, fres[1]).wireless /\ _iface_info(env, i).wireless
                        \/ /\ _iface_info(env, fres[1]).wireless = _iface_info(env, i).wireless
                           /\ i < fres[1]

\* two wired default-route interfaces, both up with carrier, 1 listed before
\* 2: the result is 2
C12_Witness ==
    /\ fdone /\ fcall.fn = "_pick_iface" /\ fcall.preferred = <<>>
    /\ fcall.env.route = <<1, 2>>
    /\ ScoreIn(fcall.env, 1) = 3 /\ ScoreIn(fcall.env, 2) = 3
    /\ fres = <<2>>

\* the non-loopback interfaces of a call's environment
PoolIn(env) == IF env.listing = <<>> THEN {} ELSE env.listing[1] \ {LO}

NoDefaultScores(env) == \A i \in Elems(env.route) : ScoreIn(env, i) = 0

\* C13 as stated: without override and without a default-route interface
\* scoring above 0, the result is the alphabetically first of the
\* highest-scoring non-loopback interfaces when one scores above 0, else the
\* alphabetically first non-loopback interface, and none only when there is
\* no non-loopback interface.
C13_FallbackFirstAlphabetical ==
    fdone /\ fcall.fn = "_pick_iface" /\ fcall.preferred = <<>> =>
        LET env == fcall.env
            pool == PoolIn(env)
        IN  /\ fres = <<>> => pool = {}
            /\ NoDefaultScores(env) =>
                  IF \E i \in pool : ScoreIn(env, i) > 0
                    THEN /\ fres # <<>> /\ fres[1] \in pool
                         /\ ScoreIn(env, fres[1]) = BestScore(env, pool)
                         /\ \A i \in pool :
                               ScoreIn(env, i) = BestScore(env, pool) => fres[1] <= i
                  ELSE IF pool # {}
                    THEN fres # <<>> /\ fres[1] \in pool /\ \A i \in pool : fres[1] <= i
                  ELSE fres = <<>>

\* what _pick_iface does instead: the same order of fallbacks, but among the
\* non-loopback interfaces of the highest score a wired one wins, and among
\* those the name that sorts last.
C13_FallbackSortedLast ==
    fdone /\ fcall.fn = "_pick_iface" /\ fcall.preferred = <<>> =>
        LET env == fcall.env
            pool == PoolIn(env)
        IN  /\ fres = <<>> => pool = {}
            /\ NoDefaultScores(env) =>
                  IF \E i \in pool : ScoreIn(env, i) > 0
                    THEN /\ fres # <<>> /\ fres[1] \in pool
                         /\ ScoreIn(env, fres[1]) = BestScore(env, pool)
                         /\ \A i \in pool :
                               ScoreIn(env, i) = BestScore(env, pool) /\ i # fres[1] =>
                                 \/ /\ ~_iface_info(env, fres[1]).wireless
                                    /\ _iface_info(env, i).wireless
                                 \/ /\ _iface_info(env, fres[1]).wireless
                                          = _iface_info(env, i).wireless
                                    /\ i < fres[1]
                  ELSE IF pool # {}
                    THEN fres # <<>> /\ fres[1] \in pool /\ \A i \in pool : fres[1] <= i
                  ELSE fres = <<>>

\* no default route, interfaces 1 and 2 both wired and up with carrier: the
\* result is 2
C13_Witness ==
    /\ fdone /\ fcall.fn = "_pick_iface" /\ fcall.preferred = <<>>
    /\ fcall.env.route = <<>> /\ fcall.env.listing = <<{1, 2, LO}>>
    /\ ScoreIn(fcall.env, 1) = 3 /\ ScoreIn(fcall.env, 2) = 3
    /\ fres = <<2>>

\* C14 as stated: a rate pair that is not none comes from a baseline and a
\* current sample of the same interface; the baseline of the interface left
\* behind is never used for a rate of the new one.
C14_SameInterfaceSamples ==
    rates.ret # <<>> => rates.of[1] = rates.of[2]

\* a rate returned for interface 2 over the baseline read from interface 1
C14_Witness ==
    ncalls > 0 /\ rates.ret # <<>> /\ rates.of = <<1, 2>> /\ nm.iface = <<2>>

\* C15 as stated: the call that finds the current interface, up with carrier
\* at the call before, down and re-selects another one returns (none, none).
C15_RepickReturnsNone ==
    rates.pre => rates.ret = <<>> /\ nm.iface # rates.old

\* the call that switched from interface 1 to interface 2 returned numbers,
\* both samples of interface 2 taken by that call
C15_Witness ==
    /\ rates.pre /\ rates.old = <<1>> /\ nm.iface = <<2>>
    /\ rates.ret # <<>> /\ rates.of = <<2, 2>>

\* C16: a rate returned by rates_ks() is none or at least 0 in both
\* directions, also over a counter that went down and over samples of the
\* same instant.
C16_RatesNotNegative ==
    rates.ret # <<>> => rates.ret[1] >= 0 /\ rates.ret[2] >= 0

\* rx of interface 1 went from 4096 back to 0 and tx from 0 to 4096 within
\* the same millisecond: 0 and 4000 KB/s
C16_Witness ==
    /\ ncalls > 0 /\ clk = 0 /\ rates.of = <<1, 1>> /\ rates.ret = <<0, 4000>>
    /\ nm.rx0 = <<0>> /\ nm.tx0 = <<4096>>

\* C17: a non-empty label cached at time T is returned unchanged and without
\* running the lookup by every call made before T + TTL; a call made after
\* T + TTL runs the lookup and stores what it produced with the time of the
\* call.
C17_CacheExpiry ==
    (lab.key \in Keys /\ lab.was.v # "") =>
        /\ lab.at < lab.was.t + TTL =>
              /\ lab.computes = 0
              /\ lab.ret = lab.was.v
              /\ cache[lab.key] = lab.was
        /\ lab.at > lab.was.t + TTL =>
              /\ lab.computes = 1
              /\ lab.ret = lab.found
              /\ cache[lab.key] = [v |-> lab.found, t |-> lab.at]

\* a label stored at 1 has expired at 2 * TTL: the lookup ran and its label
\* replaced it
C17_Witness ==
    /\ lab.key = "ram" /\ lab.was = [v |-> "Micron", t |-> 1]
    /\ lab.at = 2 * TTL /\ lab.found = "Samsung" /\ lab.ret = "Samsung"
    /\ cache["ram"] = [v |-> "Samsung", t |-> 2 * TTL]

\* C18: when the lookup of a label call produced the empty string, the next
\* call for that key runs the lookup again, whatever the time between them.
C18_EmptyNeverServed ==
    (lab.key \in Keys /\ lab.prev = "empty") => lab.computes = 1

\* the empty label was stored, and a call within the TTL looked again
C18_Witness ==
    /\ lab.key = "disk" /\ lab.prev = "empty"
    /\ lab.was.v = "" /\ lab.at < lab.was.t + TTL /\ lab.at > 0
    /\ lab.computes = 1 /\ lab.ret = "KINGSTON"

\* C19: serving one received poll samples and updates the network meter at
\* most once and computes and stores each cache entry at most once.
C19_OneWritePerPoll ==
    served.tile # 0 =>
        /\ served.samples <= 1
        /\ \A k \in Keys : served.stores[k] <= 1

\* What the code keeps: a poll for the tile NET runs rates_ks() twice, a poll
\* for MEM or DSK runs its label function twice; no other poll touches the
\* meter or the cache.
C19_TwoWritesPerPoll ==
    served.tile # 0 =>
        /\ served.samples <= 2
        /\ \A k \in Keys : served.stores[k] <= 2
        /\ served.samples > 0 => served.tile = NET
        /\ served.stores["ram"] > 0 => served.tile = MEM
        /\ served.stores["disk"] > 0 => served.tile = DSK

\* a NET poll in steady state took two samples into the meter
C19_Witness ==
    /\ pc = "steady" /\ served.tile = NET /\ served.written
    /\ served.samples = 2 /\ served.payload[1].network # <<>>

\* C20: whatever sensors are missing, the payload generator returns a payload
\* with the sentinel in place of the missing value and the reply is written.
C20_SensorFailureNeverFails ==
    served.tile # 0 =>
        /\ ~served.raised
        /\ served.written
        /\ served.tile = NET /\ served.sens.hwmon = <<>> => served.payload[1].speed = -1
        /\ served.tile = VOL /\ served.sens.vol = <<>> => served.payload[1].volume = -1
        /\ served.tile = BAT /\ served.sens.bat = <<>> => served.payload[1].battery = 177

\* What the code keeps: only a missing /proc/stat line (CPU) or a failing
\* statvfs (DSK) ends the process; every other missing sensor gives its
\* sentinel and the reply is written.
C20_OnlyStatAndStatvfsRaise ==
    served.tile # 0 =>
        /\ served.raised <=> \/ served.tile = CPU /\ served.sens.stat = <<>>
                             \/ served.tile = DSK /\ served.sens.statvfs = <<>>
        /\ served.written <=> ~served.raised
        /\ served.written /\ served.tile = NET /\ served.sens.hwmon = <<>> =>
              served.payload[1].speed = -1
        /\ served.written /\ served.tile = NET /\ ~served.sens.netok =>
              served.payload[1].network = <<>>
        /\ served.written /\ served.tile = VOL /\ served.sens.vol = <<>> =>
              served.payload[1].volume = -1
        /\ served.written /\ served.tile = BAT /\ served.sens.bat = <<>> =>
              served.payload[1].battery = 177
        /\ served.written /\ served.tile = MEM /\ served.sens.manu = "" /\ served.stores["ram"] > 0 =>
              served.payload[1].label = ""

\* the poll for the CPU tile found no line in /proc/stat: no reply was
\* written and the process has ended
C20_Witness ==
    /\ served.tile = CPU /\ served.sens.stat = <<>>
    /\ served.raised /\ ~served.written /\ pc = "dead"

\* C21: build_reply returns AA, the tile id, 00, the sequence byte, then the
\* characters of the payload that Latin-1 can encode, one byte each and in
\* their order, then CC 33 C3 3C, and nothing else.
C21_BuildReply ==
    fdone /\ fcall.fn = "build_reply" =>
        LET t == fcall.txt
            kept == {i \in 1..Len(t) : t[i] <= 255}
            place(i) == 4 + Cardinality({j \in kept : j <= i})
        IN  /\ Len(fres) = 4 + Cardinality(kept) + 4
            /\ fres[1] = 170 /\ fres[2] = fcall.id_byte
            /\ fres[3] = 0 /\ fres[4] = fcall.seq_ascii
            /\ \A i \in kept : fres[place(i)] = t[i]
            /\ fres[Len(fres) - 3] = 204 /\ fres[Len(fres) - 2] = 51
            /\ fres[Len(fres) - 1] = 195 /\ fres[Len(fres)] = 60

\* "A", the euro sign, the degree sign: the euro sign is dropped
C21_Witness ==
    /\ fdone /\ fcall.fn = "build_reply" /\ fcall.txt = <<65, 8364, 176>>
    /\ fres = <<170, fcall.id_byte, 0, fcall.seq_ascii, 65, 176, 204, 51, 195, 60>>

\* C22 as stated: a read_enq call that has seven bytes to read consumes
\* exactly seven of them, whether it returns a sequence byte or None.
C22_ConsumesSeven ==
    fdone /\ fcall.fn = "read_enq" /\ Len(fcall.stream) >= 7 =>
        Len(fcall.stream) - Len(fres.rest) = 7

\* C22 amended: read_enq consumes a prefix of the input of at most seven
\* bytes and leaves the rest as it was: seven bytes when it returns a
\* sequence byte; one byte when the first is not AA, two when the second is
\* not 05, else seven, or all there is when fewer arrive before the timeout.
C22_ConsumesUpToSeven ==
    fdone /\ fcall.fn = "read_enq" =>
        LET s == fcall.stream
            n == Len(s) - Len(fres.rest)
        IN  /\ n \in 0..7
            /\ fres.rest = SubSeq(s, n + 1, Len(s))
            /\ fres.ret # <<>> => n = 7
            /\ n = (IF Len(s) >= 1 /\ s[1] # 170 THEN 1
                    ELSE IF Len(s) >= 2 /\ s[2] # 5 THEN 2
                    ELSE IF Len(s) >= 7 THEN 7 ELSE Len(s))

\* a noise byte before a poll: the call consumes the noise byte only and the
\* poll is still there for the next call
C22_Witness ==
    /\ fdone /\ fcall.fn = "read_enq" /\ fcall.stream = NoisyPoll
    /\ fres.ret = <<>> /\ fres.rest = Poll(49)

\* C23: the index stays below 1,000,000 and every steady-state reply, also
\* the one written after index 999,999, is the tile after the previous
\* reply's in CPU, GPU, MEM, DSK, DAT, NET, VOL, BAT: BAT at index 999,999 is
\* followed by CPU at index 0.
C23_WrapKeepsRotation ==
    /\ [][pc = "steady" /\ nWritten' # nWritten =>
             /\ out'[2] = FULL_ROT[(TilePos(out[2]) % 8) + 1]
             /\ out'[2] = FULL_ROT[(sidx % 8) + 1]
             /\ sidx = 999999 => out'[2] = BAT /\ sidx' = 0
             /\ sidx # 999999 => sidx' = sidx + 1]_vars
    /\ [](sidx \in 0..999999)

\* index 999,999 was served with BAT, index 0 with CPU, and the index is 1
C23_Witness ==
    pc = "steady" /\ sidx = 1 /\ out[2] = CPU /\ sReplies >= 2 /\ nWritten > 999999

\* C24: every unlock attempt starts with its rotation index, its boot-reply
\* counter and its arrival list reset, whatever the attempt before left; its
\* first reply is the CPU tile; it activates only after at least 5 polls
\* answered and 3 boot-style polls seen in that same attempt.
C24_FreshAttempt ==
    /\ [][pc = "for" /\ pc' = "unlock" =>
             idx' = 0 /\ boot_replies' = 0 /\ enq_times' = <<>> /\ ~activated']_vars
    /\ [][pc = "unlock" /\ hist = <<>> /\ hist' # <<>> => out'[2] = 83]_vars
    /\ [](InAttempt => /\ idx = Len(hist)
                       /\ boot_replies <= Len(hist)
                       /\ Len(enq_times) <= Len(hist)
                       /\ activated => Len(hist) >= 5 /\ bootSeen >= 3)

\* the second attempt, after a first one that timed out and its pulse, has
\* answered one poll: index 1, one boot reply, one arrival, CPU sent
C24_Witness ==
    /\ pc = "unlock" /\ attempt_idx = 2 /\ failed = 1 /\ pulses = 1
    /\ Len(hist) = 1 /\ idx = 1 /\ boot_replies = 1 /\ Len(enq_times) = 1
    /\ out[2] = CPU

\* the rate in KB/s over d bytes since the meter's baseline, as documented
RateSince(d) == Max(0, (d * 1000) \div (Max(1, clk - nm.t0[1]) * 1024))

\* the reply being written is the first NET reply of the steady state
FirstNetReply ==
    pc = "steady" /\ sReplies = 5 /\ sReplies' = 6 /\ served'.tile = NET

\* the rate of the reply being written is the one over the bytes counted
\* since the baseline the meter held before the poll
FromHeldBaseline ==
    /\ nm.iface # <<>> /\ nm.rx0 # <<>> /\ netdev[nm.iface[1]] # <<>>
    /\ served'.payload[1].network =
          <<RateSince(netdev[nm.iface[1]][1] - nm.rx0[1]),
            RateSince(netdev[nm.iface[1]][2] - nm.tx0[1])>>

\* C25: only a poll served with the tile NET changes the meter, so the unlock
\* phase leaves it as it was created, and the rate of the first steady-state
\* NET reply is computed against the baseline taken when the meter was
\* created.
C25_FirstRateFromCreation ==
    /\ [][nm' # nm => pc = "steady" /\ served'.tile = NET]_vars
    /\ [][FirstNetReply /\ served'.payload[1].network # <<>> => FromHeldBaseline]_vars

\* What the code keeps: only a NET poll changes the meter, and the first NET
\* reply's rate is computed against the baseline of the creation unless that
\* call itself selects another interface.
C25_OtherTilesLeaveMeter ==
    /\ [][nm' # nm => pc = "steady" /\ served'.tile = NET]_vars
    /\ [][pc' = "unlock" => nm' = nm]_vars
    /\ [][FirstNetReply /\ served'.payload[1].network # <<>> /\ nm'.iface = nm.iface =>
             FromHeldBaseline]_vars

\* interface 1, on which the meter was created, is down and interface 2 up
\* with carrier: the first NET reply reports a rate for interface 2, which
\* that very poll selected
C25_Witness ==
    /\ pc = "steady" /\ sReplies = 6 /\ served.tile = NET
    /\ ~_iface_info(net, 1).up /\ UpWithCarrier(net, <<2>>)
    /\ served.payload[1].network # <<>> /\ nm.iface = <<2>> /\ nm.src = <<2>>

====
